---- MODULE Spec2Model ----
(***************************************************************************)
(* ContestHub server (src/index.js): an Express application whose route    *)
(* handlers are sequences of awaited MongoDB operations on four            *)
(* collections.  One step of the model is one store operation of a         *)
(* handler together with the synchronous code around it; requests in       *)
(* flight interleave at the awaits.  The lookup of a role gate is taken in *)
(* the same step as the handler's first store operation in the             *)
(* specifications that never write the user store (the lookup commutes     *)
(* with every other step there); PATCH /users/role/:id keeps its gate as a *)
(* step of its own.  A suspended request keeps the locals its remaining    *)
(* steps read.  Timestamps (createdAt, submissionDate, declarationDate)    *)
(* are left out of the documents.                                          *)
(***************************************************************************)
EXTENDS Integers, Sequences, FiniteSets, Bags, TLC

VARIABLES
    users,        \* usersCollection: sequence of documents in natural order
    contests,     \* contestsCollection
    payments,     \* paymentsCollection
    submissions,  \* submissionsCollection
    nextOid,      \* the next _id the driver generates for a contest
    inflight,     \* the bag of requests suspended at an await
    res           \* the response of the request that finished last, or
                  \* Unwatched in a specification that does not record responses

vars == <<users, contests, payments, submissions, nextOid, inflight, res>>

stores == <<users, contests, payments, submissions, nextOid>>

----------------------------------------------------------------------------
\* Bounds of the model.

MaxContests == 2      \* contests ever inserted
MaxPayments == 2      \* payment documents
MaxSubmissions == 2   \* submission documents
MaxUsers == 3         \* user documents
MaxInFlight == 2      \* requests suspended at an await at the same time
MaxListed == 3        \* contests in the store that the listings read
MaxRanked == 6        \* contests in the store that the ranking reads

----------------------------------------------------------------------------
\* Values.

Emails == {"admin@hub", "ann@hub", "bob@hub", "uma@hub"}

NoToken == "no-token"          \* a request without a verifiable bearer token

Callers == Emails \cup {NoToken}

Statuses == {"Pending", "Accepted", "Rejected", "Completed"}

\* The text of an identifier as it travels in a path or a body.  hex = 0 is a
\* text that is no ObjectId; upper tells an upper-case spelling of the digits.
Malformed == [hex |-> 0, upper |-> FALSE]

AbsentOid == MaxContests + 1   \* a well-formed identifier no insert generates

IdText(n) == [hex |-> n, upper |-> FALSE]

ObjectIdIsValid(id) == id.hex # 0

\* new ObjectId(text): the 12-byte value, whatever the case of the digits.
NewObjectId(id) == id.hex

NoResponse == 0                \* the handler's promise rejected: nothing was sent

----------------------------------------------------------------------------
\* Store primitives.

\* { ...a, ...b } and $set: the fields of b over those of a.
Merge(a, b) ==
    [f \in (DOMAIN a) \cup (DOMAIN b) |-> IF f \in DOMAIN b THEN b[f] ELSE a[f]]

\* The positions of the documents of a collection that match a query.
Matching(coll, Q(_)) == {i \in DOMAIN coll : Q(coll[i])}

First(S) == CHOOSE i \in S : \A j \in S : i <= j

\* updateOne: the first matching document is rewritten.
UpdateOne(coll, Q(_), U(_)) ==
    IF Matching(coll, Q) = {} THEN coll
    ELSE [coll EXCEPT ![First(Matching(coll, Q))] = U(@)]

\* deleteOne: the first matching document is removed.
DeleteOne(coll, Q(_)) ==
    IF Matching(coll, Q) = {} THEN coll
    ELSE LET k == First(Matching(coll, Q))
         IN  SubSeq(coll, 1, k - 1) \o SubSeq(coll, k + 1, Len(coll))

\* A handler can reach its first await while fewer than MaxInFlight wait.
Room == BagCardinality(inflight) < MaxInFlight

\* The handler reaches an await: the request waits with its locals.
Suspend(req) == inflight' = inflight (+) SetToBag({req})

\* A waiting request r runs to its next await.
Resume(r, next) == inflight' = (inflight (-) SetToBag({r})) (+) SetToBag({next})

Unwatched == [route |-> "unwatched", status |-> 0]

\* res.status(status).send(...)
Respond(route, status) ==
    res' = IF res = Unwatched THEN res ELSE [route |-> route, status |-> status]

Finish(r, route, status) ==
    /\ inflight' = inflight (-) SetToBag({r})
    /\ Respond(route, status)

----------------------------------------------------------------------------
\* Gates.

\* A gate that calls next() without looking at the token.
verifyTokenSkipped(decoded) == 200

\* verifyToken: 401 without a verifiable token.
verifyToken(decoded) == IF decoded = NoToken THEN 401 ELSE 200

StoredRole(email) ==
    LET m == Matching(users, LAMBDA u : u.email = email)
    IN  IF m = {} THEN "none" ELSE users[First(m)].role

\* A gate that refuses only a stored role other than Admin: a caller with no
\* user document passes.
verifyAdminNoRecordPasses(decoded) ==
    IF verifyToken(decoded) # 200 THEN 401
    ELSE IF StoredRole(decoded) \in {"Admin", "none"} THEN 200 ELSE 403

\* verifyToken, then verifyAdmin: the stored role of the token's email.
verifyAdmin(decoded) ==
    IF verifyToken(decoded) # 200 THEN 401
    ELSE IF StoredRole(decoded) = "Admin" THEN 200 ELSE 403

\* A gate that decides by the role the user had when the server started.
verifyCreatorAtStart(decoded) ==
    IF verifyToken(decoded) # 200 THEN 401
    ELSE IF decoded \in {"ann@hub", "bob@hub"} THEN 200 ELSE 403

\* verifyToken, then verifyCreator.
verifyCreator(decoded) ==
    IF verifyToken(decoded) # 200 THEN 401
    ELSE IF StoredRole(decoded) = "Creator" THEN 200 ELSE 403

\* The requests of a route that wait at an await.
Waiting(route) == {r \in BagToSet(inflight) : r.route = route}

\* The requests that wait at an await.
InFlight == BagToSet(inflight)

\* How many requests of a route wait.
NumWaiting(route) == BagCardinality([r \in Waiting(route) |-> inflight[r]])

----------------------------------------------------------------------------
\* POST /contests (verifyToken, verifyCreator).

\* The handler's fields spread before the body's: the body wins.
ContestToInsertBodyLast(contest, email) ==
    Merge([status |-> "Pending", participationCount |-> 0, creator |-> email], contest)

\* { ...contest, status: 'Pending', participationCount: 0, creator: req.decoded.email }
ContestToInsert(contest, email) ==
    Merge(contest, [status |-> "Pending", participationCount |-> 0, creator |-> email])

PostContests(decoded, contest) ==
    LET route == "POST /contests"
    IN  /\ nextOid <= MaxContests
        /\ UNCHANGED inflight
        /\ IF verifyCreator(decoded) # 200
           THEN Respond(route, verifyCreator(decoded)) /\ UNCHANGED stores
           ELSE /\ contests' = Append(contests,
                                      Merge(ContestToInsert(contest, decoded),
                                            [_id |-> nextOid]))
                /\ nextOid' = nextOid + 1
                /\ Respond(route, 200)
                /\ UNCHANGED <<users, payments, submissions>>

----------------------------------------------------------------------------
\* PATCH /contests/creator/edit/:id (verifyToken, verifyCreator).

\* The filter without its status field.
OwnPendingAnyStatus(id, creatorEmail, c) ==
    /\ c._id = NewObjectId(id)
    /\ c.creator = creatorEmail

\* filter { _id, creator: creatorEmail, status: 'Pending' }
OwnPending(id, creatorEmail, c) ==
    /\ c._id = NewObjectId(id)
    /\ c.creator = creatorEmail
    /\ c.status = "Pending"

CreatorEdit(decoded, id, updatedData) ==
    LET route == "PATCH /contests/creator/edit/:id"
        Q(c) == OwnPending(id, decoded, c)
        U(c) == Merge(c, updatedData)
    IN  /\ UNCHANGED inflight
        /\ IF verifyCreator(decoded) # 200
           THEN Respond(route, verifyCreator(decoded)) /\ UNCHANGED stores
           ELSE IF ~ObjectIdIsValid(id)
           THEN Respond(route, 400) /\ UNCHANGED stores
           ELSE /\ contests' = UpdateOne(contests, Q, U)
                /\ Respond(route, IF Matching(contests, Q) = {} THEN 403 ELSE 200)
                /\ UNCHANGED <<users, payments, submissions, nextOid>>

----------------------------------------------------------------------------
\* DELETE /contests/creator/:id (verifyToken, verifyCreator).

CreatorDelete(decoded, id) ==
    LET route == "DELETE /contests/creator/:id"
        Q(c) == OwnPending(id, decoded, c)
    IN  /\ UNCHANGED inflight
        /\ IF verifyCreator(decoded) # 200
           THEN Respond(route, verifyCreator(decoded)) /\ UNCHANGED stores
           ELSE IF ~ObjectIdIsValid(id)
           THEN Respond(route, 400) /\ UNCHANGED stores
           ELSE /\ contests' = DeleteOne(contests, Q)
                /\ Respond(route, IF Matching(contests, Q) = {} THEN 403 ELSE 200)
                /\ UNCHANGED <<users, payments, submissions, nextOid>>

----------------------------------------------------------------------------
\* PATCH /contests/status/:id (verifyToken, verifyAdmin).

ById(id, c) == c._id = NewObjectId(id)

SetStatus(decoded, id, status) ==
    LET route == "PATCH /contests/status/:id"
        Q(c) == ById(id, c)
        U(c) == Merge(c, [status |-> status])
    IN  /\ UNCHANGED inflight
        /\ IF verifyAdmin(decoded) # 200
           THEN Respond(route, verifyAdmin(decoded)) /\ UNCHANGED stores
           ELSE IF ~ObjectIdIsValid(id)
           THEN Respond(route, 400) /\ UNCHANGED stores
           ELSE /\ contests' = UpdateOne(contests, Q, U)
                /\ Respond(route, IF Matching(contests, Q) = {} THEN 404 ELSE 200)
                /\ UNCHANGED <<users, payments, submissions, nextOid>>

----------------------------------------------------------------------------
\* DELETE /contests/:id (verifyToken, verifyAdmin).

AdminDelete(decoded, id) ==
    LET route == "DELETE /contests/:id"
        Q(c) == ById(id, c)
    IN  /\ UNCHANGED inflight
        /\ IF verifyAdmin(decoded) # 200
           THEN Respond(route, verifyAdmin(decoded)) /\ UNCHANGED stores
           ELSE IF ~ObjectIdIsValid(id)
           THEN Respond(route, 400) /\ UNCHANGED stores
           ELSE /\ contests' = DeleteOne(contests, Q)
                /\ Respond(route, IF Matching(contests, Q) = {} THEN 404 ELSE 200)
                /\ UNCHANGED <<users, payments, submissions, nextOid>>

----------------------------------------------------------------------------
\* PATCH /contests/winner/:contestId (verifyToken, verifyCreator).

\* The lookup without its creator field.
OwnedByAnyone(id, creatorEmail, c) == c._id = NewObjectId(id)

\* findOne({ _id, creator: creatorEmail })
OwnedBy(id, creatorEmail, c) ==
    /\ c._id = NewObjectId(id)
    /\ c.creator = creatorEmail

DeclareWinner(decoded, contestId, body) ==
    LET route == "PATCH /contests/winner/:contestId"
        Q(c) == OwnedBy(contestId, decoded, c)
    IN  /\ Room
        /\ UNCHANGED stores
        /\ IF verifyCreator(decoded) # 200
           THEN Respond(route, verifyCreator(decoded)) /\ UNCHANGED inflight
           ELSE IF ~ObjectIdIsValid(contestId)
           THEN Respond(route, 400) /\ UNCHANGED inflight
           ELSE IF Matching(contests, Q) = {}
           THEN Respond(route, 403) /\ UNCHANGED inflight
           ELSE /\ Suspend([route |-> route, pc |-> "isParticipant",
                               decoded |-> decoded, id |-> contestId, body |-> body])
                /\ UNCHANGED res

\* A participant lookup whose miss refuses the declaration.
DeclareWinnerIsParticipantStrict(r) ==
    LET route == "PATCH /contests/winner/:contestId"
        IsParticipant == \E i \in 1..Len(submissions) :
                            /\ submissions[i].contestId = r.id
                            /\ submissions[i].participantEmail = r.body.winnerEmail
    IN  /\ r.route = route
        /\ r.pc = "isParticipant"
        /\ UNCHANGED stores
        /\ IF IsParticipant
           THEN Resume(r, [r EXCEPT !.pc = "updateOne"]) /\ UNCHANGED res
           ELSE Finish(r, route, 400)

\* findOne({ contestId, participantEmail: winnerEmail }): a miss only logs a warning.
DeclareWinnerIsParticipant(r) ==
    /\ r.route = "PATCH /contests/winner/:contestId"
    /\ r.pc = "isParticipant"
    /\ Resume(r, [r EXCEPT !.pc = "updateOne"])
    /\ UNCHANGED <<stores, res>>

WinnerOf(body) ==
    [email |-> body.winnerEmail, name |-> body.winnerName, image |-> body.winnerImage]

DeclareWinnerUpdate(r) ==
    LET route == "PATCH /contests/winner/:contestId"
        Q(c) == ById(r.id, c)
        U(c) == Merge(c, [winner |-> WinnerOf(r.body), status |-> "Completed"])
    IN  /\ r.route = route
        /\ r.pc = "updateOne"
        /\ contests' = UpdateOne(contests, Q, U)
        /\ Finish(r, route, IF Matching(contests, Q) = {} THEN 404 ELSE 200)
        /\ UNCHANGED <<users, payments, submissions, nextOid>>

----------------------------------------------------------------------------
\* POST /payments (verifyToken).

PostPayments(decoded, payment) ==
    LET route == "POST /payments"
    IN  /\ Room
        /\ Len(payments) < MaxPayments
        /\ IF verifyToken(decoded) # 200
           THEN Respond(route, 401) /\ UNCHANGED <<stores, inflight>>
           ELSE /\ payments' = Append(payments, payment)
                /\ Suspend([route |-> route, pc |-> "updateOne", body |-> payment])
                /\ UNCHANGED <<users, contests, submissions, nextOid, res>>

\* $set: { participationCount: 1 } in the place of $inc.
IncAsSet(c) == [c EXCEPT !.participationCount = 1]

\* $inc: { participationCount: 1 }
Inc(c) == [c EXCEPT !.participationCount = @ + 1]

\* new ObjectId(contestId) throws on a text that is no ObjectId, after the
\* payment was inserted: the rejection leaves the request unanswered, or a
\* framework that forwards rejections answers 500.
PostPaymentsUpdate(r) ==
    LET route == "POST /payments"
        Q(c) == ById(r.body.contestId, c)
    IN  /\ r.route = route
        /\ IF ~ObjectIdIsValid(r.body.contestId)
           THEN /\ \E outcome \in {NoResponse, 500} : Finish(r, route, outcome)
                /\ UNCHANGED stores
           ELSE /\ contests' = UpdateOne(contests, Q, Inc)
                /\ Finish(r, route, 200)
                /\ UNCHANGED <<users, payments, submissions, nextOid>>

----------------------------------------------------------------------------
\* POST /submissions (verifyToken).

\* The payment lookup without its email field.
PaidByAnyone(userEmail, contestId, p) == p.contestId = contestId

\* findOne({ email: userEmail, contestId: contestId }) on payments
PaidBy(userEmail, contestId, p) ==
    /\ p.email = userEmail
    /\ p.contestId = contestId

\* findOne({ contestId: contestId, participantEmail: userEmail }) on submissions
SubmittedBy(userEmail, contestId, sub) ==
    /\ sub.contestId = contestId
    /\ sub.participantEmail = userEmail

\* The token's email spread before the body: the body's participantEmail wins.
SubmissionToInsertBodyLast(submission, userEmail) ==
    Merge([participantEmail |-> userEmail], submission)

\* { ...submission, participantEmail: userEmail }
SubmissionToInsert(submission, userEmail) ==
    Merge(submission, [participantEmail |-> userEmail])

PostSubmissions(decoded, submission) ==
    LET route == "POST /submissions"
        Q(p) == PaidBy(decoded, submission.contestId, p)
    IN  /\ Room
        /\ Len(submissions) + NumWaiting(route) < MaxSubmissions
        /\ UNCHANGED stores
        /\ IF verifyToken(decoded) # 200
           THEN Respond(route, 401) /\ UNCHANGED inflight
           ELSE IF Matching(payments, Q) = {}
           THEN Respond(route, 403) /\ UNCHANGED inflight
           ELSE /\ Suspend([route |-> route, pc |-> "alreadySubmitted",
                               decoded |-> decoded, body |-> submission])
                /\ UNCHANGED res

PostSubmissionsAlreadySubmitted(r) ==
    LET route == "POST /submissions"
        Q(sub) == SubmittedBy(r.decoded, r.body.contestId, sub)
    IN  /\ r.route = route
        /\ r.pc = "alreadySubmitted"
        /\ UNCHANGED stores
        /\ IF Matching(submissions, Q) # {}
           THEN Finish(r, route, 400)
           ELSE Resume(r, [r EXCEPT !.pc = "insertOne"]) /\ UNCHANGED res

PostSubmissionsInsert(r) ==
    LET route == "POST /submissions"
    IN  /\ r.route = route
        /\ r.pc = "insertOne"
        /\ submissions' = Append(submissions, SubmissionToInsert(r.body, r.decoded))
        /\ Finish(r, route, 200)
        /\ UNCHANGED <<users, contests, payments, nextOid>>

----------------------------------------------------------------------------
\* POST /users.

\* { ...user, role: 'User' }
UserToInsert(user) == Merge(user, [role |-> "User"])

HasEmail(email, u) == u.email = email

\* findOne({ email: user.email }): an existing user ends the request.
PostUsers(user) ==
    LET route == "POST /users"
        Q(u) == HasEmail(user.email, u)
    IN  /\ Room
        /\ Len(users) + NumWaiting(route) < MaxUsers
        /\ UNCHANGED stores
        /\ IF Matching(users, Q) # {}
           THEN /\ res' = IF res = Unwatched THEN res
                          ELSE [route |-> route, status |-> 200,
                                message |-> "User already exists", insertedId |-> 0]
                /\ UNCHANGED inflight
           ELSE /\ Suspend([route |-> route, pc |-> "insertOne", body |-> user])
                /\ UNCHANGED res

PostUsersInsert(r) ==
    LET route == "POST /users"
    IN  /\ r.route = route
        /\ users' = Append(users, Merge(UserToInsert(r.body), [_id |-> Len(users) + 1]))
        /\ Finish(r, route, 200)
        /\ UNCHANGED <<contests, payments, submissions, nextOid>>

----------------------------------------------------------------------------
\* PATCH /users/profile/:email (verifyToken).

UserProfile(decoded, email, updateFields) ==
    LET route == "PATCH /users/profile/:email"
        Q(u) == HasEmail(email, u)
        U(u) == Merge(u, updateFields)
    IN  /\ UNCHANGED inflight
        /\ IF verifyToken(decoded) # 200
           THEN Respond(route, 401) /\ UNCHANGED stores
           ELSE IF email # decoded
           THEN Respond(route, 403) /\ UNCHANGED stores
           ELSE /\ users' = UpdateOne(users, Q, U)
                /\ Respond(route, IF Matching(users, Q) = {} THEN 404 ELSE 200)
                /\ UNCHANGED <<contests, payments, submissions, nextOid>>

----------------------------------------------------------------------------
\* PATCH /users/role/:id (verifyToken, verifyAdmin).

UserRole(decoded, id, role) ==
    LET route == "PATCH /users/role/:id"
    IN  /\ Room
        /\ UNCHANGED stores
        /\ IF verifyAdmin(decoded) # 200
           THEN Respond(route, verifyAdmin(decoded)) /\ UNCHANGED inflight
           ELSE /\ Suspend([route |-> route, pc |-> "updateOne", id |-> id,
                               body |-> [role |-> role]])
                /\ UNCHANGED res

UserRoleUpdate(r) ==
    LET route == "PATCH /users/role/:id"
        Q(u) == ById(r.id, u)
        U(u) == Merge(u, [role |-> r.body.role])
    IN  /\ r.route = route
        /\ IF ~ObjectIdIsValid(r.id)
           THEN Finish(r, route, 400) /\ UNCHANGED stores
           ELSE /\ users' = UpdateOne(users, Q, U)
                /\ Finish(r, route, IF Matching(users, Q) = {} THEN 404 ELSE 200)
                /\ UNCHANGED <<contests, payments, submissions, nextOid>>

----------------------------------------------------------------------------
\* Request inputs.  A body is any JSON object: the sets below hold the field
\* combinations the handlers are sensitive to.

\* Identifier texts a client can send: those of the contests inserted so far,
\* one that resolves to nothing, one that is no ObjectId.
ContestIds == {IdText(n) : n \in 1..(nextOid - 1)} \cup {IdText(AbsentOid), Malformed}

\* Bodies of POST /contests: a plain one, and ones that supply the fields the
\* handler sets itself.
CreateBodies ==
    {[name |-> "quiz"],
     [name |-> "quiz", status |-> "Accepted"],
     [name |-> "quiz", participationCount |-> 3],
     [name |-> "quiz", creator |-> "admin@hub"],
     [name |-> "quiz", creator |-> "bob@hub"],
     [name |-> "quiz", status |-> "Completed", participationCount |-> 3,
      creator |-> "admin@hub"]}

WinnerBodies ==
    {[winnerEmail |-> "uma@hub", winnerName |-> "Uma", winnerImage |-> "uma.png"]}

\* The user store of a running deployment: one admin, two creators, one user.
SeedUsers ==
    <<[_id |-> 1, email |-> "admin@hub", role |-> "Admin"],
      [_id |-> 2, email |-> "ann@hub", role |-> "Creator"],
      [_id |-> 3, email |-> "bob@hub", role |-> "Creator"],
      [_id |-> 4, email |-> "uma@hub", role |-> "User"]>>

\* Callers of the admin routes: the admin, a creator, a caller without token.
AdminCallers == {"admin@hub", "ann@hub", NoToken}

\* Callers of the creator routes: two creators, a user, a caller without token.
CreatorCallers == {"ann@hub", "bob@hub", "uma@hub", NoToken}

NoRes == [route |-> "idle", status |-> NoResponse]

----------------------------------------------------------------------------
\* The contest lifecycle: creators and the admin act on the contest store;
\* one winner declaration is in flight at a time, and every caller of a role
\* gated route other than POST /contests presents a token.

StatusEditBodies == {[name |-> "quiz"], [status |-> "Accepted"], [status |-> "Completed"]}

InitStatus ==
    /\ users = SeedUsers
    /\ contests = <<>>
    /\ payments = <<>>
    /\ submissions = <<>>
    /\ nextOid = 1
    /\ inflight = EmptyBag
    /\ res = Unwatched

NextStatus ==
    \/ \E d \in Callers, b \in CreateBodies : PostContests(d, b)
    \/ \E d \in CreatorCallers \ {NoToken}, id \in ContestIds, b \in StatusEditBodies :
           CreatorEdit(d, id, b)
    \/ \E d \in CreatorCallers \ {NoToken}, id \in ContestIds : CreatorDelete(d, id)
    \/ \E d \in AdminCallers \ {NoToken}, id \in ContestIds, st \in Statuses :
           SetStatus(d, id, st)
    \/ \E d \in AdminCallers \ {NoToken}, id \in ContestIds : AdminDelete(d, id)
    \/ \E d \in CreatorCallers \ {NoToken}, id \in ContestIds, b \in WinnerBodies :
           inflight = EmptyBag /\ DeclareWinner(d, id, b)
    \/ \E r \in InFlight : DeclareWinnerIsParticipant(r)
    \/ \E r \in InFlight : DeclareWinnerUpdate(r)

SpecStatus == InitStatus /\ [][NextStatus]_vars

\* The same requests when no caller's stored role is Admin.
NonAdminCallers == {d \in Callers : StoredRole(d) # "Admin"}

NextNonAdmin ==
    \/ \E d \in NonAdminCallers, b \in CreateBodies : PostContests(d, b)
    \/ \E d \in NonAdminCallers, id \in ContestIds, b \in StatusEditBodies :
           CreatorEdit(d, id, b)
    \/ \E d \in NonAdminCallers, id \in ContestIds : CreatorDelete(d, id)
    \/ \E d \in NonAdminCallers, id \in ContestIds, st \in Statuses : SetStatus(d, id, st)
    \/ \E d \in NonAdminCallers, id \in ContestIds : AdminDelete(d, id)
    \/ \E d \in NonAdminCallers, id \in ContestIds, b \in WinnerBodies :
           inflight = EmptyBag /\ DeclareWinner(d, id, b)
    \/ \E r \in InFlight : DeclareWinnerIsParticipant(r)
    \/ \E r \in InFlight : DeclareWinnerUpdate(r)

SpecNonAdmin == InitStatus /\ [][NextNonAdmin]_vars

----------------------------------------------------------------------------
\* Participation: payers record payments for two contests of a running
\* deployment while a creator edits and the admin deletes.

SeedContests ==
    <<[_id |-> 1, name |-> "quiz", status |-> "Pending", participationCount |-> 0,
       creator |-> "ann@hub"],
      [_id |-> 2, name |-> "quiz", status |-> "Accepted", participationCount |-> 0,
       creator |-> "bob@hub"]>>

PaymentBodies ==
    {[email |-> e, contestId |-> c] : e \in {"uma@hub", "bob@hub"}, c \in ContestIds}

CountEditBodies == {[participationCount |-> n] : n \in {0, 3}}

InitPayments ==
    /\ users = SeedUsers
    /\ contests = SeedContests
    /\ payments = <<>>
    /\ submissions = <<>>
    /\ nextOid = Len(SeedContests) + 1
    /\ inflight = EmptyBag
    /\ res = NoRes

NextPayments ==
    \/ \E d \in {"uma@hub", NoToken}, b \in PaymentBodies : PostPayments(d, b)
    \/ \E r \in InFlight : PostPaymentsUpdate(r)
    \/ \E d \in {"ann@hub", "uma@hub"}, id \in ContestIds, b \in CountEditBodies :
           CreatorEdit(d, id, b)
    \/ \E d \in AdminCallers, id \in ContestIds : AdminDelete(d, id)

SpecPayments == InitPayments /\ [][NextPayments]_vars

----------------------------------------------------------------------------
\* Accounts: visitors register, users edit their profiles and the admin
\* assigns roles, from a user store that holds the admin.

UserIds == {IdText(n) : n \in 1..Len(users)} \cup {IdText(MaxUsers + 1), Malformed}

RegisterBodies ==
    {[email |-> "uma@hub"], [email |-> "ann@hub"], [email |-> "ann@hub", role |-> "Admin"]}

ProfileBodies == {[name |-> "Ann"], [email |-> "uma@hub"], [role |-> "Admin"]}

InitUsers ==
    /\ users = <<[_id |-> 1, email |-> "admin@hub", role |-> "Admin"]>>
    /\ contests = <<>>
    /\ payments = <<>>
    /\ submissions = <<>>
    /\ nextOid = 1
    /\ inflight = EmptyBag
    /\ res = Unwatched

NextUsers ==
    \/ \E b \in RegisterBodies : PostUsers(b)
    \/ \E r \in InFlight : PostUsersInsert(r)
    \/ \E d \in {"ann@hub", "uma@hub", NoToken}, e \in {"ann@hub", "uma@hub"},
          b \in ProfileBodies : UserProfile(d, e, b)
    \/ \E d \in AdminCallers, id \in UserIds, role \in {"Creator", "User"} :
           UserRole(d, id, role)
    \/ \E r \in InFlight : UserRoleUpdate(r)

SpecUsers == InitUsers /\ [][NextUsers]_vars

----------------------------------------------------------------------------
\* Entries: participants pay for the two contests of a running deployment
\* and submit their entries.

Participants == {"uma@hub", "bob@hub"}

EntryPaymentBodies ==
    {[email |-> e, contestId |-> IdText(n)] : e \in Participants, n \in {1, 2}}

SubmissionBodies ==
    {[contestId |-> IdText(n)] : n \in {1, 2}}
      \cup {[contestId |-> IdText(1), participantEmail |-> e] : e \in Participants}

InitEntries ==
    /\ users = SeedUsers
    /\ contests = SeedContests
    /\ payments = <<>>
    /\ submissions = <<>>
    /\ nextOid = Len(SeedContests) + 1
    /\ inflight = EmptyBag
    /\ res = NoRes

NextEntries ==
    \/ \E d \in Participants, b \in EntryPaymentBodies : PostPayments(d, b)
    \/ \E r \in InFlight : PostPaymentsUpdate(r)
    \/ \E d \in Participants \cup {NoToken}, b \in SubmissionBodies :
           PostSubmissions(d, b)
    \/ \E r \in InFlight : PostSubmissionsAlreadySubmitted(r)
    \/ \E r \in InFlight : PostSubmissionsInsert(r)

SpecEntries == InitEntries /\ [][NextEntries]_vars

----------------------------------------------------------------------------
\* Observations on the contest store.

Oids == 1..MaxContests

Exists(coll, oid) == \E i \in DOMAIN coll : coll[i]._id = oid

Doc(coll, oid) == coll[CHOOSE i \in DOMAIN coll : coll[i]._id = oid]

\* The status of a contest, "none" when the store holds no such contest.
StatusOf(coll, oid) == IF Exists(coll, oid) THEN Doc(coll, oid).status ELSE "none"

----------------------------------------------------------------------------
\* C1: while every request comes from a caller whose stored role is not
\* Admin, no contest is Accepted or Rejected.
C1_NonAdminNeverAcceptsOrRejects ==
    \A i \in DOMAIN contests : contests[i].status \notin {"Accepted", "Rejected"}

\* C2: Rejected and Completed are terminal: a contest in one of them keeps
\* its status in every step, or is removed from the store.
C2_RejectedCompletedTerminal ==
    [][\A oid \in Oids :
          StatusOf(contests, oid) \in {"Rejected", "Completed"}
          => StatusOf(contests', oid) \in {StatusOf(contests, oid), "none"}]_vars

\* C3: a contest becomes Completed only from Accepted, in the update step of
\* a winner declaration on that contest made by its creator.
C3_CompletedOnlyByWinnerFromAccepted ==
    [][\A oid \in Oids :
          (/\ StatusOf(contests', oid) = "Completed"
           /\ StatusOf(contests, oid) # "Completed")
          => /\ StatusOf(contests, oid) = "Accepted"
             /\ \E r \in InFlight :
                    /\ DeclareWinnerUpdate(r)
                    /\ NewObjectId(r.id) = oid
                    /\ r.decoded = Doc(contests, oid).creator]_vars

\* C4: the contest a POST /contests inserts has status Pending,
\* participationCount 0 and the caller's email as creator, whatever the body.
C4_CreatedPendingZeroOwned ==
    [][Len(contests') > Len(contests)
       => /\ \E d \in Callers, b \in CreateBodies : PostContests(d, b)
          /\ \A d \in Callers, b \in CreateBodies :
                PostContests(d, b)
                => LET c == contests'[Len(contests')]
                   IN  /\ c.status = "Pending"
                       /\ c.participationCount = 0
                       /\ c.creator = d
                       /\ c.name = b.name
                       /\ c._id = nextOid]_vars

\* Both creators have created a contest: each is in the store as inserted,
\* Pending with no participation and owned by its caller.
C4_Witness ==
    /\ Len(contests) = 2
    /\ nextOid = 3
    /\ {contests[1].creator, contests[2].creator} = {"ann@hub", "bob@hub"}
    /\ \A i \in DOMAIN contests :
           contests[i].status = "Pending" /\ contests[i].participationCount = 0

----------------------------------------------------------------------------
\* Observations on payments.

\* The payment documents whose contestId is the text of oid.
PaymentsFor(oid) ==
    {k \in DOMAIN payments :
        /\ ObjectIdIsValid(payments[k].contestId)
        /\ NewObjectId(payments[k].contestId) = oid}

PaymentInFlight == Waiting("POST /payments") # {}

AllOids == 1..(MaxContests + 1)

\* C8: the update step of a POST /payments whose contestId resolves to a
\* contest raises that contest's participationCount by exactly 1, changes no
\* other contest, and the payment document equal to the body is in the store.
C8_PaymentRaisesCounterByOne ==
    [][\A r \in Waiting("POST /payments") :
          (/\ PostPaymentsUpdate(r)
           /\ ObjectIdIsValid(r.body.contestId)
           /\ Exists(contests, NewObjectId(r.body.contestId)))
          => LET oid == NewObjectId(r.body.contestId)
             IN  /\ Exists(contests', oid)
                 /\ Doc(contests', oid).participationCount
                      = Doc(contests, oid).participationCount + 1
                 /\ \A o \in AllOids \ {oid} :
                        /\ Exists(contests', o) <=> Exists(contests, o)
                        /\ Exists(contests, o) => Doc(contests', o) = Doc(contests, o)
                 /\ \E k \in DOMAIN payments' : payments'[k] = r.body
                 /\ res' = [route |-> "POST /payments", status |-> 200]]_vars

\* Two payment requests for the same contest overlapped: both documents are
\* recorded, one request has completed and raised the counter to 1, the other
\* is still before its update.
C8_Witness ==
    /\ res = [route |-> "POST /payments", status |-> 200]
    /\ \E oid \in AllOids, r \in Waiting("POST /payments") :
           /\ Exists(contests, oid)
           /\ r.body.contestId = IdText(oid)
           /\ Cardinality(PaymentsFor(oid)) = 2
           /\ Doc(contests, oid).participationCount = 1

\* C9: when no payment request is between its two store operations, every
\* contest's participationCount is the number of payment documents that
\* reference it.
C9_CounterCountsPayments ==
    ~PaymentInFlight
    => \A i \in DOMAIN contests :
           contests[i].participationCount = Cardinality(PaymentsFor(contests[i]._id))

\* C10: a step changes a contest's participationCount only by raising it by
\* 1, and only as the update step of a payment that references the contest.
C10_CounterOnlyRaisedByPayments ==
    [][\A oid \in AllOids :
          (/\ Exists(contests, oid)
           /\ Exists(contests', oid)
           /\ Doc(contests', oid).participationCount # Doc(contests, oid).participationCount)
          => /\ Doc(contests', oid).participationCount
                  = Doc(contests, oid).participationCount + 1
             /\ \E r \in Waiting("POST /payments") :
                    /\ PostPaymentsUpdate(r)
                    /\ NewObjectId(r.body.contestId) = oid]_vars

----------------------------------------------------------------------------
\* C5: the user store holds at most one document per email.
C5_EmailsUnique ==
    \A i, j \in DOMAIN users : users[i].email = users[j].email => i = j

----------------------------------------------------------------------------
\* Observations on submissions.

HasPaid(email, contestId) ==
    \E k \in DOMAIN payments :
        payments[k].email = email /\ payments[k].contestId = contestId

HasSubmitted(email, contestId) ==
    \E k \in DOMAIN submissions :
        /\ submissions[k].contestId = contestId
        /\ submissions[k].participantEmail = email

\* C6: the submission store holds at most one document per
\* (contestId, participantEmail).
C6_OneSubmissionPerPair ==
    \A i, j \in DOMAIN submissions :
        (/\ submissions[i].contestId = submissions[j].contestId
         /\ submissions[i].participantEmail = submissions[j].participantEmail)
        => i = j

\* C7: a POST /submissions of caller e for contest c is answered 403 with no
\* insert when its payment lookup finds no payment of (e, c), 400 with no
\* insert when its submission lookup finds a submission of (c, e), and
\* otherwise inserts exactly one document, whose participantEmail is e; no
\* other step inserts a submission.
C7_SubmissionOutcomes ==
    [][/\ \A d \in Participants, b \in SubmissionBodies :
             PostSubmissions(d, b)
             => /\ submissions' = submissions
                /\ IF HasPaid(d, b.contestId)
                   THEN /\ NumWaiting("POST /submissions")' = NumWaiting("POST /submissions") + 1
                        /\ res' = res
                   ELSE /\ res' = [route |-> "POST /submissions", status |-> 403]
                        /\ inflight' = inflight
       /\ \A r \in Waiting("POST /submissions") :
             PostSubmissionsAlreadySubmitted(r)
             => /\ submissions' = submissions
                /\ IF HasSubmitted(r.decoded, r.body.contestId)
                   THEN /\ res' = [route |-> "POST /submissions", status |-> 400]
                        /\ BagCardinality(inflight') = BagCardinality(inflight) - 1
                   ELSE /\ BagIn([r EXCEPT !.pc = "insertOne"], inflight')
                        /\ res' = res
       /\ submissions' # submissions
             => \E r \in Waiting("POST /submissions") :
                    /\ PostSubmissionsInsert(r)
                    /\ Len(submissions') = Len(submissions) + 1
                    /\ SubSeq(submissions', 1, Len(submissions)) = submissions
                    /\ submissions'[Len(submissions')].participantEmail = r.decoded
                    /\ submissions'[Len(submissions')].contestId = r.body.contestId
                    /\ res' = [route |-> "POST /submissions", status |-> 200]]_vars

\* A caller who paid and submitted once was answered 400 on submitting again,
\* and the store holds the one submission, under the caller's email.
C7_Witness ==
    /\ res = [route |-> "POST /submissions", status |-> 400]
    /\ Len(submissions) = 1
    /\ HasPaid(submissions[1].participantEmail, submissions[1].contestId)
    /\ inflight = EmptyBag

----------------------------------------------------------------------------
\* Contest routes with their responses: creators, a user and the admin act
\* on the two contests of a running deployment, each with a token; one winner
\* declaration is in flight at a time.  The named winner has or has not
\* submitted to contest 1.

OwnerEditBodies == {[name |-> "quiz"], [creator |-> "bob@hub"]}

SeedSubmissions ==
    {<<>>, <<[contestId |-> IdText(1), participantEmail |-> "uma@hub"]>>}

InitRoutes ==
    /\ users = SeedUsers
    /\ contests = SeedContests
    /\ payments = <<>>
    /\ submissions \in SeedSubmissions
    /\ nextOid = Len(SeedContests) + 1
    /\ inflight = EmptyBag
    /\ res = NoRes

NextRoutes ==
    \/ \E d \in CreatorCallers \ {NoToken}, id \in ContestIds, b \in OwnerEditBodies :
           CreatorEdit(d, id, b)
    \/ \E d \in CreatorCallers \ {NoToken}, id \in ContestIds : CreatorDelete(d, id)
    \/ \E d \in AdminCallers \ {NoToken}, id \in ContestIds, st \in {"Accepted", "Rejected"} :
           SetStatus(d, id, st)
    \/ \E d \in AdminCallers \ {NoToken}, id \in ContestIds : AdminDelete(d, id)
    \/ \E d \in CreatorCallers \ {NoToken}, id \in ContestIds, b \in WinnerBodies :
           inflight = EmptyBag /\ DeclareWinner(d, id, b)
    \/ \E r \in InFlight : DeclareWinnerIsParticipant(r)
    \/ \E r \in InFlight : DeclareWinnerUpdate(r)

SpecRoutes == InitRoutes /\ [][NextRoutes]_vars

----------------------------------------------------------------------------
\* C11: the creator of a contest is immutable: no step changes the creator
\* field of a contest that stays in the store.
C11_CreatorImmutable ==
    [][\A oid \in AllOids :
          (Exists(contests, oid) /\ Exists(contests', oid))
          => Doc(contests', oid).creator = Doc(contests, oid).creator]_vars

----------------------------------------------------------------------------
\* C12: a creator edit or creator delete by a Creator on a contest in the
\* store succeeds and acts on it when the contest is the caller's and
\* Pending; when it is another creator's or not Pending the request is
\* answered 403, the same response for either cause, and the contest store
\* is unchanged; neither route changes the contest store in any other case.
C12_EditDeleteOwnPendingOnly ==
    [][LET edit == "PATCH /contests/creator/edit/:id"
           delete == "DELETE /contests/creator/:id"
           Found(id) == ObjectIdIsValid(id) /\ Exists(contests, NewObjectId(id))
           Ok(d, id) == /\ verifyCreator(d) = 200
                        /\ Found(id)
                        /\ Doc(contests, NewObjectId(id)).creator = d
                        /\ Doc(contests, NewObjectId(id)).status = "Pending"
       IN  /\ (res'.route = edit /\ inflight' = inflight)
              => \A d \in CreatorCallers \ {NoToken}, id \in ContestIds, b \in OwnerEditBodies :
                    CreatorEdit(d, id, b)
                    => /\ contests' # contests => Ok(d, id)
                       /\ (verifyCreator(d) = 200 /\ Found(id))
                          => IF Ok(d, id)
                             THEN /\ res' = [route |-> edit, status |-> 200]
                                  /\ Doc(contests', NewObjectId(id))
                                        = Merge(Doc(contests, NewObjectId(id)), b)
                             ELSE /\ res' = [route |-> edit, status |-> 403]
                                  /\ contests' = contests
           /\ (res'.route = delete /\ inflight' = inflight)
              => \A d \in CreatorCallers \ {NoToken}, id \in ContestIds :
                    CreatorDelete(d, id)
                    => /\ contests' # contests => Ok(d, id)
                       /\ (verifyCreator(d) = 200 /\ Found(id))
                          => IF Ok(d, id)
                             THEN /\ res' = [route |-> delete, status |-> 200]
                                  /\ ~Exists(contests', NewObjectId(id))
                             ELSE /\ res' = [route |-> delete, status |-> 403]
                                  /\ contests' = contests]_vars

\* The admin rejected contest 1; its creator's delete was then answered 403
\* and the contest is still in the store, as is another creator's contest.
C12_Witness ==
    /\ res = [route |-> "DELETE /contests/creator/:id", status |-> 403]
    /\ Len(contests) = 2
    /\ Doc(contests, 1).status = "Rejected"
    /\ Doc(contests, 1).creator = "ann@hub"

----------------------------------------------------------------------------
\* C17: a winner declaration by a Creator on a contest in the store that is
\* not the caller's is answered 403 and changes no contest; on the caller's
\* own contest it passes the ownership lookup, passes the participant lookup
\* whether or not the named winner has a submission, and its update, on a
\* contest still in the store, answers 200 and leaves that contest Completed
\* with a winner record of the supplied email, name and image, the other
\* contests unchanged.
C17_DeclareWinnerOwnerOnly ==
    [][LET route == "PATCH /contests/winner/:contestId"
           Found(id) == ObjectIdIsValid(id) /\ Exists(contests, NewObjectId(id))
       IN  /\ (inflight = EmptyBag /\ (res'.route = route \/ inflight' # inflight))
              => \A d \in CreatorCallers \ {NoToken}, id \in ContestIds, b \in WinnerBodies :
                    (DeclareWinner(d, id, b) /\ verifyCreator(d) = 200 /\ Found(id))
                    => /\ contests' = contests
                       /\ IF Doc(contests, NewObjectId(id)).creator = d
                          THEN /\ res' = res
                               /\ inflight' = SetToBag({[route |-> route, pc |-> "isParticipant",
                                                         decoded |-> d, id |-> id, body |-> b]})
                          ELSE /\ res' = [route |-> route, status |-> 403]
                               /\ inflight' = inflight
           /\ \A r \in Waiting(route) :
                 DeclareWinnerIsParticipant(r)
                 => /\ contests' = contests
                    /\ res' = res
                    /\ inflight' = SetToBag({[r EXCEPT !.pc = "updateOne"]})
           /\ \A r \in Waiting(route) :
                 (DeclareWinnerUpdate(r) /\ Exists(contests, NewObjectId(r.id)))
                 => LET oid == NewObjectId(r.id)
                    IN  /\ res' = [route |-> route, status |-> 200]
                        /\ inflight' = EmptyBag
                        /\ Doc(contests', oid).status = "Completed"
                        /\ Doc(contests', oid).winner.email = r.body.winnerEmail
                        /\ Doc(contests', oid).winner.name = r.body.winnerName
                        /\ Doc(contests', oid).winner.image = r.body.winnerImage
                        /\ Len(contests') = Len(contests)
                        /\ \A o \in AllOids \ {oid} :
                              Exists(contests, o) => Doc(contests', o) = Doc(contests, o)]_vars

\* The owner of contest 1 declared a winner who never submitted: the request
\* was answered 200 and the contest is Completed with that winner.
C17_Witness ==
    /\ res = [route |-> "PATCH /contests/winner/:contestId", status |-> 200]
    /\ submissions = <<>>
    /\ inflight = EmptyBag
    /\ Exists(contests, 1)
    /\ Doc(contests, 1).status = "Completed"
    /\ "winner" \in DOMAIN Doc(contests, 1)
    /\ Doc(contests, 1).winner.email = "uma@hub"

----------------------------------------------------------------------------
\* C18: on the routes that take a contest identifier in the path (creator
\* edit, creator delete, admin status change, admin delete, winner
\* declaration), a request that passed its role gate is answered 400 with
\* every store unchanged when the identifier is malformed, and 404 when the
\* identifier is well-formed and no contest in the store has it.
C18_MalformedIs400AbsentIs404 ==
    [][LET Answer(route, id) ==
               IF ~ObjectIdIsValid(id)
               THEN res' = [route |-> route, status |-> 400] /\ UNCHANGED stores
               ELSE ~Exists(contests, NewObjectId(id))
                    => res' = [route |-> route, status |-> 404]
       IN  inflight' = inflight
           => /\ \A d \in CreatorCallers \ {NoToken}, id \in ContestIds, b \in OwnerEditBodies :
                    (CreatorEdit(d, id, b) /\ verifyCreator(d) = 200)
                    => Answer("PATCH /contests/creator/edit/:id", id)
              /\ \A d \in CreatorCallers \ {NoToken}, id \in ContestIds :
                    (CreatorDelete(d, id) /\ verifyCreator(d) = 200)
                    => Answer("DELETE /contests/creator/:id", id)
              /\ \A d \in AdminCallers \ {NoToken}, id \in ContestIds, st \in {"Accepted", "Rejected"} :
                    (SetStatus(d, id, st) /\ verifyAdmin(d) = 200)
                    => Answer("PATCH /contests/status/:id", id)
              /\ \A d \in AdminCallers \ {NoToken}, id \in ContestIds :
                    (AdminDelete(d, id) /\ verifyAdmin(d) = 200)
                    => Answer("DELETE /contests/:id", id)
              /\ \A d \in CreatorCallers \ {NoToken}, id \in ContestIds, b \in WinnerBodies :
                    (inflight = EmptyBag /\ DeclareWinner(d, id, b) /\ verifyCreator(d) = 200)
                    => Answer("PATCH /contests/winner/:contestId", id)]_vars

----------------------------------------------------------------------------
\* Responses that carry a body.

\* res.send(body)
RespondWith(route, status, body) ==
    res' = IF res = Unwatched THEN res
           ELSE [route |-> route, status |-> status, body |-> body]

\* A caller with a valid token whose email has no user document.
Stranger == "zed@hub"

----------------------------------------------------------------------------
\* GET /contests/admin (verifyToken, verifyAdmin).

\* find().toArray(): every document of the store.
GetContestsAdmin(decoded) ==
    LET route == "GET /contests/admin"
    IN  /\ UNCHANGED <<stores, inflight>>
        /\ IF verifyAdmin(decoded) # 200
           THEN Respond(route, verifyAdmin(decoded))
           ELSE RespondWith(route, 200, contests)

----------------------------------------------------------------------------
\* GET /contests.

\* A query parameter that is a number, or one parseInt turns into NaN
\* (absent, empty, not a number).
Num(n) == [nan |-> FALSE, n |-> n]

NaN == [nan |-> TRUE, n |-> 0]

\* parseInt(q) || dflt: NaN and 0 are falsy.
ParseIntOr(q, dflt) == IF q.nan \/ q.n = 0 THEN dflt ELSE q.n

DefaultPageSize == 10

\* An absent or empty type or search parameter: falsy, the filter is not added.
NoType == ""

NoSearch == <<>>

\* Texts are sequences of characters; the letters of the model in lower case.
Lower(ch) ==
    CASE ch = "A" -> "a"
      [] ch = "R" -> "r"
      [] ch = "T" -> "t"
      [] ch = "D" -> "d"
      [] OTHER -> ch

\* { $regex: pattern, $options: 'i' } for a pattern of literal characters:
\* the pattern occurs in the text, whatever the case.
RegexMatchesI(pattern, text) ==
    \E i \in 0..(Len(text) - Len(pattern)) :
        \A k \in 1..Len(pattern) : Lower(text[i + k]) = Lower(pattern[k])

\* The base query with no status field.
BaseQueryAnyStatus(c) == TRUE

\* let query = { status: 'Accepted' }
BaseQuery(c) == c.status = "Accepted"

\* The query after the optional type and search filters were added.
ContestsQuery(type, search, c) ==
    /\ BaseQuery(c)
    /\ type # NoType => c.contestType = type
    /\ search # NoSearch => RegexMatchesI(search, c.name)

Abs(n) == IF n < 0 THEN -n ELSE n

\* find(query).skip(skip).limit(limit): a negative limit is its absolute value.
Page(docs, skip, limit) ==
    IF skip >= Len(docs) THEN <<>>
    ELSE SubSeq(docs, skip + 1,
                IF skip + Abs(limit) < Len(docs) THEN skip + Abs(limit) ELSE Len(docs))

\* The handler has no try/catch: a negative skip is refused by the store, the
\* rejection leaves the request unanswered or is answered 500 by a framework
\* that forwards rejections.  The store is not written between the find and
\* the countDocuments in the specifications that use this route.
GetContests(type, search, page, size) ==
    LET route == "GET /contests"
        pageNum == ParseIntOr(page, 0)
        pageSize == ParseIntOr(size, DefaultPageSize)
        skip == pageNum * pageSize
        Q(c) == ContestsQuery(type, search, c)
        matching == SelectSeq(contests, Q)
    IN  /\ UNCHANGED <<stores, inflight>>
        /\ IF skip < 0
           THEN \E outcome \in {NoResponse, 500} : Respond(route, outcome)
           ELSE RespondWith(route, 200,
                            [contests |-> Page(matching, skip, pageSize),
                             count |-> Len(matching)])

----------------------------------------------------------------------------
\* Listings: the admin listing and the public listing are read from a store
\* of up to MaxListed contests of any status, name and type.

ListedNames == {<<"A", "r", "t">>, <<"a", "d">>}

ListedTypes == {"design", "writing"}

ListedDocs ==
    [status : {"Accepted", "Pending"}, name : ListedNames, contestType : ListedTypes,
     participationCount : {0}, creator : {"ann@hub"}]

\* The stores of n documents, the _id of a document being its position.
ListedStores(n) ==
    {[i \in 1..n |-> Merge(s[i], [_id |-> i])] : s \in [1..n -> ListedDocs]}

ListingCallers == {"admin@hub", "ann@hub", "uma@hub", Stranger, NoToken}

TypeParams == {NoType, "design"}

SearchParams == {NoSearch, <<"a">>, <<"R", "T">>}

PageParams == {NaN, Num(0), Num(1), Num(-1)}

SizeParams == {NaN, Num(1), Num(2), Num(-1)}

InitListing ==
    /\ users = SeedUsers
    /\ \E n \in 0..MaxListed : contests \in ListedStores(n)
    /\ payments = <<>>
    /\ submissions = <<>>
    /\ nextOid = Len(contests) + 1
    /\ inflight = EmptyBag
    /\ res = NoRes

NextListing ==
    \/ \E d \in ListingCallers : GetContestsAdmin(d)
    \/ \E t \in TypeParams, s \in SearchParams, p \in PageParams, z \in SizeParams :
           GetContests(t, s, p, z)

SpecListing == InitListing /\ [][NextListing]_vars

----------------------------------------------------------------------------
\* C13: GET /contests/admin answers 401 without a valid token, 403 with a
\* valid token whose stored role is not Admin or that has no user document,
\* and 200 with every contest of the store when the stored role is Admin.
C13_AdminListingGate ==
    [][res'.route = "GET /contests/admin"
       => \A d \in ListingCallers :
             GetContestsAdmin(d)
             => LET route == "GET /contests/admin"
                IN  IF d = NoToken THEN res' = [route |-> route, status |-> 401]
                    ELSE IF StoredRole(d) # "Admin"
                    THEN res' = [route |-> route, status |-> 403]
                    ELSE res' = [route |-> route, status |-> 200, body |-> contests]]_vars

\* The admin was answered 200 with a store of three contests that holds a
\* Pending and an Accepted one.
C13_Witness ==
    /\ res.route = "GET /contests/admin"
    /\ res.status = 200
    /\ res.body = contests
    /\ Len(contests) = 3
    /\ {contests[i].status : i \in DOMAIN contests} = {"Accepted", "Pending"}

----------------------------------------------------------------------------
\* POST /contests with the gate's lookup as a step of its own, for the
\* specifications that write the user store.

\* verifyToken, verifyCreator: the caller is refused or the handler starts.
PostContestsGate(decoded, contest) ==
    LET route == "POST /contests"
    IN  /\ Room
        /\ UNCHANGED stores
        /\ IF verifyCreator(decoded) # 200
           THEN Respond(route, verifyCreator(decoded)) /\ UNCHANGED inflight
           ELSE /\ nextOid + NumWaiting(route) <= MaxContests
                /\ Suspend([route |-> route, pc |-> "insertOne", decoded |-> decoded,
                            body |-> contest])
                /\ UNCHANGED res

\* insertOne(contestToInsert)
PostContestsInsert(r) ==
    LET route == "POST /contests"
    IN  /\ r.route = route
        /\ contests' = Append(contests,
                              Merge(ContestToInsert(r.body, r.decoded), [_id |-> nextOid]))
        /\ nextOid' = nextOid + 1
        /\ Finish(r, route, 200)
        /\ UNCHANGED <<users, payments, submissions>>

----------------------------------------------------------------------------
\* Roles: the admin, and whoever holds the Admin role, changes the roles of
\* two users while these users create contests.

RoleTargets == {IdText(2), IdText(4)}

RoleCallers == {"admin@hub", "ann@hub"}

AssignedRoles == {"User", "Creator", "Admin"}

ContestCallers == {"ann@hub", "uma@hub"}

InitRoles ==
    /\ users = SeedUsers
    /\ contests = <<>>
    /\ payments = <<>>
    /\ submissions = <<>>
    /\ nextOid = 1
    /\ inflight = EmptyBag
    /\ res = NoRes

NextRoles ==
    \/ \E d \in RoleCallers, id \in RoleTargets, role \in AssignedRoles :
           UserRole(d, id, role)
    \/ \E r \in InFlight : UserRoleUpdate(r)
    \/ \E d \in ContestCallers : PostContestsGate(d, [name |-> "quiz"])
    \/ \E r \in InFlight : PostContestsInsert(r)

SpecRoles == InitRoles /\ [][NextRoles]_vars

----------------------------------------------------------------------------
\* C14: a role gate decides by the role stored when the request arrives, and
\* the update of a role change makes the new role the stored one at once: the
\* user's next POST /contests is admitted exactly when the new role is
\* Creator, the next role change exactly when it is Admin.
C14_RoleReadAtEachRequest ==
    [][/\ \A d \in ContestCallers :
             PostContestsGate(d, [name |-> "quiz"])
             => IF StoredRole(d) = "Creator"
                THEN /\ NumWaiting("POST /contests")' = NumWaiting("POST /contests") + 1
                     /\ res' = res
                ELSE /\ res' = [route |-> "POST /contests", status |-> 403]
                     /\ inflight' = inflight
       /\ \A d \in RoleCallers, id \in RoleTargets, role \in AssignedRoles :
             UserRole(d, id, role)
             => IF StoredRole(d) = "Admin"
                THEN /\ NumWaiting("PATCH /users/role/:id")'
                          = NumWaiting("PATCH /users/role/:id") + 1
                     /\ res' = res
                ELSE /\ res' = [route |-> "PATCH /users/role/:id", status |-> 403]
                     /\ inflight' = inflight
       /\ \A r \in Waiting("PATCH /users/role/:id") :
             UserRoleUpdate(r)
             => \A i \in DOMAIN users :
                    users[i]._id = NewObjectId(r.id)
                    => /\ StoredRole(users[i].email)' = r.body.role
                       /\ verifyCreator(users[i].email)'
                            = IF r.body.role = "Creator" THEN 200 ELSE 403
                       /\ verifyAdmin(users[i].email)'
                            = IF r.body.role = "Admin" THEN 200 ELSE 403]_vars

\* ann@hub created a contest as a Creator, was made a User, and her next
\* POST /contests was answered 403; uma@hub was made a Creator and created one.
C14_Witness ==
    /\ res = [route |-> "POST /contests", status |-> 403]
    /\ StoredRole("ann@hub") = "User"
    /\ StoredRole("uma@hub") = "Creator"
    /\ Len(contests) = 2
    /\ {contests[i].creator : i \in DOMAIN contests} = {"ann@hub", "uma@hub"}
    /\ inflight = EmptyBag

----------------------------------------------------------------------------
\* C15: every contest in a 200 response of GET /contests is a document of
\* the store whose status is Accepted, whatever the type, search, page and
\* size parameters.
C15_PublicListingOnlyAccepted ==
    (res.route = "GET /contests" /\ res.status = 200)
    => \A i \in DOMAIN res.body.contests :
           /\ res.body.contests[i].status = "Accepted"
           /\ \E j \in DOMAIN contests : contests[j] = res.body.contests[i]

\* A page of one contest out of two that match, read from a store that also
\* holds a Pending contest.
C15_Witness ==
    /\ res.route = "GET /contests"
    /\ res.status = 200
    /\ Len(res.body.contests) = 1
    /\ res.body.count = 2
    /\ \E j \in DOMAIN contests : contests[j].status = "Pending"

----------------------------------------------------------------------------
\* GET /popular-contests.

PopularLimit == 5

\* The documents in their given order.
Unsorted(docs) == docs

\* A document placed into a list that is sorted by descending
\* participationCount, before the documents that do not exceed it.
InsertDesc(d, sorted) ==
    LET k == Cardinality({i \in DOMAIN sorted :
                             sorted[i].participationCount > d.participationCount})
    IN  SubSeq(sorted, 1, k) \o <<d>> \o SubSeq(sorted, k + 1, Len(sorted))

\* sort({ participationCount: -1 }); documents of equal count keep their
\* natural order, one of the orders the store may return them in.
RECURSIVE SortDesc(_)
SortDesc(docs) ==
    IF docs = <<>> THEN <<>> ELSE InsertDesc(Head(docs), SortDesc(Tail(docs)))

\* find({ status: 'Accepted' }).sort({ participationCount: -1 }).limit(5)
GetPopularContests ==
    LET route == "GET /popular-contests"
        accepted == SelectSeq(contests, BaseQuery)
    IN  /\ UNCHANGED <<stores, inflight>>
        /\ RespondWith(route, 200, Page(SortDesc(accepted), 0, PopularLimit))

----------------------------------------------------------------------------
\* Ranking: the popular contests are read from a store of up to MaxRanked
\* contests of either status with participation counts 0 to 2.

RankedDocs ==
    [status : {"Accepted", "Pending"}, participationCount : 0..2, name : {"quiz"},
     creator : {"ann@hub"}]

RankedStores(n) ==
    {[i \in 1..n |-> Merge(s[i], [_id |-> i])] : s \in [1..n -> RankedDocs]}

InitRanking ==
    /\ users = SeedUsers
    /\ \E n \in 0..MaxRanked : contests \in RankedStores(n)
    /\ payments = <<>>
    /\ submissions = <<>>
    /\ nextOid = Len(contests) + 1
    /\ inflight = EmptyBag
    /\ res = NoRes

NextRanking == GetPopularContests

SpecRanking == InitRanking /\ [][NextRanking]_vars

----------------------------------------------------------------------------
\* C16: the response of GET /popular-contests holds at most 5 contests, all
\* of them Accepted contests of the store, in an order along which
\* participationCount never increases, and no Accepted contest that is left
\* out has a higher participationCount than one that is included.
C16_PopularTopFive ==
    res.route = "GET /popular-contests"
    => LET top == res.body
           accepted == {j \in DOMAIN contests : contests[j].status = "Accepted"}
           included == {j \in accepted : \E i \in DOMAIN top : top[i] = contests[j]}
       IN  /\ res.status = 200
           /\ Len(top) <= 5
           /\ Len(top) = IF Cardinality(accepted) < 5 THEN Cardinality(accepted) ELSE 5
           /\ \A i \in DOMAIN top :
                  top[i].status = "Accepted" /\ \E j \in accepted : contests[j] = top[i]
           /\ \A i, k \in DOMAIN top :
                  i < k => top[i].participationCount >= top[k].participationCount
           /\ \A j \in accepted \ included, i \in DOMAIN top :
                  contests[j].participationCount <= top[i].participationCount

\* Six Accepted contests, the first with no participation: the response holds
\* the other five, from count 2 down to count 1.
C16_Witness ==
    /\ res.route = "GET /popular-contests"
    /\ Len(contests) = 6
    /\ \A j \in DOMAIN contests : contests[j].status = "Accepted"
    /\ contests[1].participationCount = 0
    /\ Len(res.body) = 5
    /\ \A i \in DOMAIN res.body : res.body[i] # contests[1]
    /\ res.body[1].participationCount = 2
    /\ res.body[5].participationCount = 1

----------------------------------------------------------------------------
\* POST /create-payment-intent (verifyToken).
\*
\* A price is a JSON number with at most three decimals, held as its count
\* of thousandths (Num(290) is 0.29), or absent (NaN: undefined * 100).

MaxPrice == 600

Prices == {Num(p) : p \in (-MaxPrice)..MaxPrice} \cup {NaN}

\* The prices up to 1.000 whose product with 100, rounded to a double, lies
\* just below the integer it should be: 0.29 * 100 is 28.999999999999996,
\* 0.57 * 100 is 56.99999999999999, 0.58 * 100 is 57.99999999999999.
RoundsBelow == {290, 570, 580}

\* const amount = parseInt(price * 100): the double product, written in
\* decimal notation and cut at the decimal point.
amount(price) ==
    IF price.nan THEN NaN
    ELSE LET a == Abs(price.n)
             t == IF a \in RoundsBelow THEN (a \div 10) - 1 ELSE a \div 10
         IN  Num(IF price.n < 0 THEN -t ELSE t)

\* The handler up to its await; amount < 1 is false for NaN.
CreatePaymentIntent(decoded, price) ==
    LET route == "POST /create-payment-intent"
    IN  /\ Room
        /\ UNCHANGED stores
        /\ IF verifyToken(decoded) # 200
           THEN Respond(route, verifyToken(decoded)) /\ UNCHANGED inflight
           ELSE IF ~amount(price).nan /\ amount(price).n < 1
           THEN Respond(route, 400) /\ UNCHANGED inflight
           ELSE /\ Suspend([route |-> route, pc |-> "create", decoded |-> decoded,
                               price |-> price, amount |-> amount(price)])
                /\ UNCHANGED res

\* stripe.paymentIntents.create resolves, or rejects into the catch block.
PaymentIntentsCreate(r) ==
    LET route == "POST /create-payment-intent"
    IN  /\ r.route = route
        /\ r.pc = "create"
        /\ inflight' = inflight (-) SetToBag({r})
        /\ UNCHANGED stores
        /\ \/ RespondWith(route, 200, [clientSecret |-> "secret"])
           \/ Respond(route, 500)

----------------------------------------------------------------------------
\* Payment intents: a user and a caller without token ask for intents at
\* prices between -0.600 and 0.600, or without a price, one request at a
\* time, on the stores of a running deployment.

IntentCallers == {"uma@hub", NoToken}

InitIntent ==
    /\ users = SeedUsers
    /\ contests = SeedContests
    /\ payments = <<>>
    /\ submissions = <<>>
    /\ nextOid = Len(SeedContests) + 1
    /\ inflight = EmptyBag
    /\ res = NoRes

NextIntent ==
    \/ \E d \in IntentCallers, p \in Prices :
           inflight = EmptyBag /\ CreatePaymentIntent(d, p)
    \/ \E r \in InFlight : PaymentIntentsCreate(r)

SpecIntent == InitIntent /\ [][NextIntent]_vars

----------------------------------------------------------------------------
\* C19: a payment-intent request with a token and a price p changes no
\* store; it is answered 400 when p is 0 or negative; for every positive p
\* it goes to the provider with amount p * 100 cut to an integer, and the
\* provider's outcome, a client secret or 500, changes no store either.
C19_IntentAmountAndOutcomes ==
    [][LET route == "POST /create-payment-intent"
       IN  /\ \A d \in IntentCallers \ {NoToken}, p \in Prices \ {NaN} :
                 (inflight = EmptyBag /\ CreatePaymentIntent(d, p))
                 => /\ UNCHANGED stores
                    /\ IF p.n <= 0
                       THEN /\ res' = [route |-> route, status |-> 400]
                            /\ inflight' = inflight
                       ELSE /\ res' = res
                            /\ \E r \in BagToSet(inflight') :
                                  r.price = p /\ r.amount = Num(p.n \div 10)
           /\ \A r \in Waiting(route) :
                 PaymentIntentsCreate(r)
                 => /\ UNCHANGED stores
                    /\ \/ res' = [route |-> route, status |-> 200,
                                  body |-> [clientSecret |-> "secret"]]
                       \/ res' = [route |-> route, status |-> 500]]_vars

----------------------------------------------------------------------------
\* C20: every request that waited on a store operation is answered when
\* its handler ends: the step that takes it out of the waiting requests
\* sends a response on its route.
C20_EveryRequestAnswered ==
    [][\A r \in InFlight :
          inflight' = inflight (-) SetToBag({r})
          => /\ res'.route = r.route
             /\ res'.status # NoResponse]_vars

----------------------------------------------------------------------------
\* GET /submissions/contest/:contestId (verifyToken, verifyCreator).

\* The same identifier spelled with upper-case digits: new ObjectId reads
\* it as the same value, a comparison of texts does not.
UpperIdText(n) == [hex |-> n, upper |-> TRUE]

\* find({ contestId: contestId }) on submissions: the texts are compared.
OfContest(contestId, sub) == sub.contestId = contestId

GetSubmissions(decoded, contestId) ==
    LET route == "GET /submissions/contest/:contestId"
        Q(c) == OwnedBy(contestId, decoded, c)
    IN  /\ Room
        /\ UNCHANGED stores
        /\ IF verifyCreator(decoded) # 200
           THEN Respond(route, verifyCreator(decoded)) /\ UNCHANGED inflight
           ELSE IF ~ObjectIdIsValid(contestId)
           THEN Respond(route, 400) /\ UNCHANGED inflight
           ELSE IF Matching(contests, Q) = {}
           THEN Respond(route, 403) /\ UNCHANGED inflight
           ELSE /\ Suspend([route |-> route, pc |-> "find",
                               decoded |-> decoded, id |-> contestId])
                /\ UNCHANGED res

GetSubmissionsFind(r) ==
    LET route == "GET /submissions/contest/:contestId"
        Q(sub) == OfContest(r.id, sub)
    IN  /\ r.route = route
        /\ r.pc = "find"
        /\ inflight' = inflight (-) SetToBag({r})
        /\ RespondWith(route, 200, SelectSeq(submissions, Q))
        /\ UNCHANGED stores

----------------------------------------------------------------------------
\* Disclosure: creators, a user and a caller without token ask for the
\* submissions of the two contests of a running deployment, one request at
\* a time; the store holds any submissions of two participants, under the
\* identifier of either contest in either spelling.

StoredSubmissions ==
    {[contestId |-> id, participantEmail |-> e] :
        id \in {IdText(1), IdText(2), UpperIdText(1)}, e \in {"uma@hub", "bob@hub"}}

SubmissionStores(n) ==
    UNION {[1..k -> StoredSubmissions] : k \in 0..n}

DisclosureIds == ContestIds \cup {UpperIdText(1)}

InitDisclosure ==
    /\ users = SeedUsers
    /\ contests = SeedContests
    /\ payments = <<>>
    /\ submissions \in SubmissionStores(MaxSubmissions)
    /\ nextOid = Len(SeedContests) + 1
    /\ inflight = EmptyBag
    /\ res = NoRes

NextDisclosure ==
    \/ \E d \in CreatorCallers, id \in DisclosureIds :
           inflight = EmptyBag /\ GetSubmissions(d, id)
    \/ \E r \in InFlight : GetSubmissionsFind(r)

SpecDisclosure == InitDisclosure /\ [][NextDisclosure]_vars

----------------------------------------------------------------------------
\* C21: a request by a Creator for the submissions of a contest in the
\* store that another creator owns is answered 403, without a body; only
\* the contest's creator reaches the listing, and the listing is answered
\* 200 with exactly the stored submissions whose contestId is the requested
\* identifier, in store order; no store changes.
C21_SubmissionsOnlyToOwner ==
    [][LET route == "GET /submissions/contest/:contestId"
       IN  /\ \A d \in CreatorCallers \ {NoToken}, id \in DisclosureIds :
                 (/\ inflight = EmptyBag
                  /\ GetSubmissions(d, id)
                  /\ verifyCreator(d) = 200
                  /\ ObjectIdIsValid(id)
                  /\ Exists(contests, NewObjectId(id)))
                 => /\ UNCHANGED stores
                    /\ IF Doc(contests, NewObjectId(id)).creator = d
                       THEN /\ res' = res
                            /\ inflight' = SetToBag({[route |-> route, pc |-> "find",
                                                      decoded |-> d, id |-> id]})
                       ELSE /\ res' = [route |-> route, status |-> 403]
                            /\ inflight' = inflight
           /\ \A r \in Waiting(route) :
                 GetSubmissionsFind(r)
                 => /\ UNCHANGED stores
                    /\ Doc(contests, NewObjectId(r.id)).creator = r.decoded
                    /\ res'.route = route
                    /\ res'.status = 200
                    /\ \A i \in 1..Len(res'.body) : res'.body[i].contestId = r.id
                    /\ Len(res'.body)
                          = Cardinality({i \in 1..Len(submissions) :
                                           submissions[i].contestId = r.id})
                    /\ \A i \in 1..Len(submissions) :
                          submissions[i].contestId = r.id
                          => \E j \in 1..Len(res'.body) : res'.body[j] = submissions[i]]_vars

\* The store holds a submission to contest 1 and one to contest 2; the
\* creator of contest 1 was answered with the former alone.
C21_Witness ==
    /\ res.route = "GET /submissions/contest/:contestId"
    /\ res.status = 200
    /\ Len(submissions) = 2
    /\ submissions[1].contestId = IdText(2)
    /\ submissions[2].contestId = IdText(1)
    /\ res.body = <<submissions[2]>>

----------------------------------------------------------------------------
\* C22: a registration stores its record with role User, and the role of a
\* stored user record changes only in the update of a role change that
\* passed the Admin gate.
C22_RoleOnlySetByAdmin ==
    [][/\ Len(users') > Len(users)
          => /\ Len(users') = Len(users) + 1
             /\ users'[Len(users')].role = "User"
       /\ (\E i \in 1..Len(users) : users'[i].role # users[i].role)
          => \E r \in Waiting("PATCH /users/role/:id") : UserRoleUpdate(r)]_vars

----------------------------------------------------------------------------
\* Gates: the admin, a creator, a user and a caller without token send the
\* requests that write the stores: they create and delete contests, pay,
\* rename themselves and change the user's role, one payment or role
\* change in flight at a time.

GateCallers == {"admin@hub", "ann@hub", "uma@hub", NoToken}

GatePayment == [email |-> "uma@hub", contestId |-> IdText(1)]

InitGates ==
    /\ users = SeedUsers
    /\ contests = <<>>
    /\ payments = <<>>
    /\ submissions = <<>>
    /\ nextOid = 1
    /\ inflight = EmptyBag
    /\ res = NoRes

NextGates ==
    \/ \E d \in GateCallers : PostContests(d, [name |-> "quiz"])
    \/ \E d \in GateCallers, id \in ContestIds : AdminDelete(d, id)
    \/ \E d \in GateCallers : inflight = EmptyBag /\ PostPayments(d, GatePayment)
    \/ \E r \in InFlight : PostPaymentsUpdate(r)
    \/ \E d \in GateCallers : UserProfile(d, "uma@hub", [name |-> "Uma"])
    \/ \E d \in GateCallers, role \in {"Creator", "User"} :
           inflight = EmptyBag /\ UserRole(d, IdText(4), role)
    \/ \E r \in InFlight : UserRoleUpdate(r)

SpecGates == InitGates /\ [][NextGates]_vars

----------------------------------------------------------------------------
\* C23: a request without a token is answered 401 by verifyToken, before
\* the role gate reads the caller's role; a request with a token whose
\* stored role is not the one its route demands is answered 403 by the role
\* gate; in both cases the step sends that response, starts no handler and
\* leaves the four stores unchanged.
C23_RefusedByGateChangesNothing ==
    [][LET Refused(route, status) ==
               /\ res' = [route |-> route, status |-> status]
               /\ inflight' = inflight
               /\ UNCHANGED <<users, contests, payments, submissions>>
           Gate(d, role) == IF d = NoToken THEN 401
                            ELSE IF role # "any" /\ StoredRole(d) # role THEN 403
                            ELSE 200
       IN  \A d \in GateCallers :
              /\ (Gate(d, "Creator") # 200 /\ PostContests(d, [name |-> "quiz"]))
                 => Refused("POST /contests", Gate(d, "Creator"))
              /\ Gate(d, "Admin") # 200
                 => /\ \A id \in ContestIds :
                          AdminDelete(d, id)
                          => Refused("DELETE /contests/:id", Gate(d, "Admin"))
                    /\ \A role \in {"Creator", "User"} :
                          (inflight = EmptyBag /\ UserRole(d, IdText(4), role))
                          => Refused("PATCH /users/role/:id", Gate(d, "Admin"))
              /\ Gate(d, "any") # 200
                 => /\ (inflight = EmptyBag /\ PostPayments(d, GatePayment))
                       => Refused("POST /payments", 401)
                    /\ UserProfile(d, "uma@hub", [name |-> "Uma"])
                       => Refused("PATCH /users/profile/:email", 401)]_vars

\* A contest was created and a payment recorded; then a creator's admin
\* delete was answered 403 and the contest and the payment are still stored.
C23_Witness ==
    /\ res = [route |-> "DELETE /contests/:id", status |-> 403]
    /\ Len(contests) = 1
    /\ Len(payments) = 1
    /\ inflight = EmptyBag

----------------------------------------------------------------------------
\* C24: a step that stores a payment record naming a contest in the store,
\* or raises the participationCount of a contest, happens while that
\* contest's status is Accepted.
C24_PaymentsOnlyForAccepted ==
    [][LET Found(id) == ObjectIdIsValid(id) /\ Exists(contests, NewObjectId(id))
           Approved(id) == Doc(contests, NewObjectId(id)).status = "Accepted"
       IN  /\ (/\ Len(payments') > Len(payments)
               /\ Found(payments'[Len(payments')].contestId))
              => Approved(payments'[Len(payments')].contestId)
           /\ \A r \in Waiting("POST /payments") :
                 (PostPaymentsUpdate(r) /\ contests' # contests)
                 => Approved(r.body.contestId)]_vars

----------------------------------------------------------------------------
\* C25: in every reachable state each submission, of contestId c and
\* participantEmail e, has a payment record of contestId c and email e.
C25_SubmissionsBackedByPayment ==
    \A i \in DOMAIN submissions :
        \E k \in DOMAIN payments :
            /\ payments[k].contestId = submissions[i].contestId
            /\ payments[k].email = submissions[i].participantEmail

\* Two participants have submitted, one of them to a contest the other also
\* paid for, while a further request waits.
C25_Witness ==
    /\ Len(submissions) = 2
    /\ submissions[1].participantEmail # submissions[2].participantEmail
    /\ Len(payments) = 2
    /\ inflight # EmptyBag

----------------------------------------------------------------------------
\* C26: the payment record a POST /payments request stores carries the
\* email of the caller's token.
C26_PayerIsCaller ==
    [][\A d \in Participants, b \in EntryPaymentBodies :
          (PostPayments(d, b) /\ Len(payments') > Len(payments))
          => payments'[Len(payments')].email = d]_vars

----------------------------------------------------------------------------
\* C27: in every reachable state a contest has a winner record if and only
\* if its status is Completed.
C27_WinnerIffCompleted ==
    \A i \in DOMAIN contests :
        ("winner" \in DOMAIN contests[i]) <=> (contests[i].status = "Completed")

----------------------------------------------------------------------------
\* GET /participated-contests (verifyToken).

\* contest._id.toString(): the identifier in lower-case digits.
OidToString(oid) == IdText(oid)

\* find({ email: userEmail }) on payments
PaidByEmail(userEmail, p) == p.email = userEmail

\* paymentRecords.find(p => p.contestId === contest._id.toString()): the
\* index of the first such record, 0 for undefined.
PaymentInfo(paymentRecords, contest) ==
    LET m == {k \in DOMAIN paymentRecords :
                 paymentRecords[k].contestId = OidToString(contest._id)}
    IN  IF m = {} THEN 0 ELSE CHOOSE k \in m : \A j \in m : k <= j

\* The payments of the caller are read; an empty list is answered at once;
\* paymentRecords.map(record => new ObjectId(record.contestId)) throws on a
\* text that is no ObjectId, outside any try block.
GetParticipated(decoded) ==
    LET route == "GET /participated-contests"
        Q(p) == PaidByEmail(decoded, p)
        paymentRecords == SelectSeq(payments, Q)
    IN  /\ Room
        /\ UNCHANGED stores
        /\ IF verifyToken(decoded) # 200
           THEN Respond(route, 401) /\ UNCHANGED inflight
           ELSE IF paymentRecords = <<>>
           THEN RespondWith(route, 200, {}) /\ UNCHANGED inflight
           ELSE IF \E k \in DOMAIN paymentRecords :
                      ~ObjectIdIsValid(paymentRecords[k].contestId)
           THEN /\ \E outcome \in {NoResponse, 500} : Respond(route, outcome)
                /\ UNCHANGED inflight
           ELSE /\ Suspend([route |-> route, pc |-> "findContests",
                               decoded |-> decoded, paymentRecords |-> paymentRecords])
                /\ UNCHANGED res

\* find({ _id: { $in: contestIds } }) on contests, then the merge:
\* paymentInfo.transactionId throws when no record carries the contest's
\* identifier in the spelling toString() gives.  The response is the set of
\* merged documents; their order is not modelled.
GetParticipatedFind(r) ==
    LET route == "GET /participated-contests"
        contestIds == {NewObjectId(r.paymentRecords[k].contestId) :
                          k \in DOMAIN r.paymentRecords}
        found == {i \in DOMAIN contests : contests[i]._id \in contestIds}
    IN  /\ r.route = route
        /\ r.pc = "findContests"
        /\ inflight' = inflight (-) SetToBag({r})
        /\ UNCHANGED stores
        /\ IF \E i \in found : PaymentInfo(r.paymentRecords, contests[i]) = 0
           THEN \E outcome \in {NoResponse, 500} : Respond(route, outcome)
           ELSE RespondWith(route, 200,
                    {Merge(contests[i],
                           [transactionId |->
                              r.paymentRecords[PaymentInfo(r.paymentRecords, contests[i])]
                                 .transactionId]) : i \in found})

----------------------------------------------------------------------------
\* Participation lists: a user records payments, for either contest of a
\* running deployment in either spelling of its identifier, for an
\* identifier no contest has and for a text that is no identifier, and asks
\* for the contests they participate in, while the admin deletes contests;
\* one request waits at a time.

ListedPaymentBodies ==
    {[email |-> "uma@hub", contestId |-> id, transactionId |-> "tx1"] :
        id \in {IdText(1), IdText(2), UpperIdText(1), IdText(AbsentOid), Malformed}}
      \cup {[email |-> "uma@hub", contestId |-> IdText(1), transactionId |-> "tx2"],
            [email |-> "bob@hub", contestId |-> IdText(2), transactionId |-> "tx3"]}

InitParticipation ==
    /\ users = SeedUsers
    /\ contests = SeedContests
    /\ payments = <<>>
    /\ submissions = <<>>
    /\ nextOid = Len(SeedContests) + 1
    /\ inflight = EmptyBag
    /\ res = NoRes

NextParticipation ==
    \/ \E b \in ListedPaymentBodies : inflight = EmptyBag /\ PostPayments("uma@hub", b)
    \/ \E r \in InFlight : PostPaymentsUpdate(r)
    \/ \E id \in {IdText(1), IdText(2)} : AdminDelete("admin@hub", id)
    \/ \E d \in {"uma@hub", NoToken} : inflight = EmptyBag /\ GetParticipated(d)
    \/ \E r \in InFlight : GetParticipatedFind(r)

SpecParticipation == InitParticipation /\ [][NextParticipation]_vars

----------------------------------------------------------------------------
\* C28: a request for the participated contests by a caller with a token
\* is answered 200 with a list: empty when the caller has no payment
\* record, otherwise exactly the contests in the store that the caller's
\* payment records name, whatever else these records name, each with the
\* transactionId of one of the caller's records for that contest.
C28_ParticipatedListsExistingContests ==
    [][LET route == "GET /participated-contests"
           Mine(d) == SelectSeq(payments, LAMBDA p : p.email = d)
           Names(p, oid) == ObjectIdIsValid(p.contestId) /\ NewObjectId(p.contestId) = oid
       IN  /\ \A d \in {"uma@hub"} :
                 (inflight = EmptyBag /\ GetParticipated(d))
                 => /\ UNCHANGED stores
                    /\ IF Mine(d) = <<>>
                       THEN res' = [route |-> route, status |-> 200, body |-> {}]
                       ELSE /\ res' = res
                            /\ inflight' = SetToBag({[route |-> route, pc |-> "findContests",
                                                      decoded |-> d,
                                                      paymentRecords |-> Mine(d)]})
           /\ \A r \in Waiting(route) :
                 GetParticipatedFind(r)
                 => /\ UNCHANGED stores
                    /\ res'.route = route
                    /\ res'.status = 200
                    /\ \A i \in DOMAIN contests :
                          (\E k \in DOMAIN r.paymentRecords :
                              Names(r.paymentRecords[k], contests[i]._id))
                          <=> (\E e \in res'.body : e._id = contests[i]._id)
                    /\ \A e \in res'.body :
                          /\ \E i \in DOMAIN contests :
                                e = Merge(contests[i], [transactionId |-> e.transactionId])
                          /\ \E k \in DOMAIN r.paymentRecords :
                                /\ Names(r.paymentRecords[k], e._id)
                                /\ r.paymentRecords[k].transactionId = e.transactionId]_vars

====
